---------------------------- MODULE Spec2Model ----------------------------
(***************************************************************************)
(* Epidemic simulation on a ring (src/sir.py).                             *)
(*                                                                         *)
(* A person is the pair <<disease_state, days>>; a city is a sequence of   *)
(* persons.  Python lists are 0-based: position p of a city is the         *)
(* element p + 1 of the sequence.  A call of a Python function yields a    *)
(* record [exc, val]: exc = "none" and val the value returned, or exc the  *)
(* name of the exception the call raised (val is then a filler of the      *)
(* function's return type).                                                *)
(***************************************************************************)
EXTENDS Integers, Sequences, FiniteSets

VARIABLES
    days_contagious,  \* the parameter days_contagious
    \* run_simulation
    starting_city,    \* the parameter starting_city
    simulated_city,   \* the local simulated_city, [bound, val]
    simulated_days,   \* the local simulated_days
    pc,               \* where run_simulation stands
    exc,              \* the exception that left run_simulation, or "none"
    \* a city taken through the vaccination step and successive day-steps
    task_type,        \* "no_vax" or "vax"
    cmd_city,         \* cmd: the city read from the file, person or vax tuples
    stage,            \* "loaded", then "ready" (snapshot holds day 0)
    snapshot,         \* the city at the start of the current day
    steps,            \* day-steps applied to snapshot
    failure,          \* the exception a step raised, or "none"
    \* run_trials, called twice with the same arguments
    vax_city,         \* the parameter vax_city
    random_seed,      \* the parameter random_seed: [given, value]
    num_trials,       \* the parameter num_trials
    i,                \* the loop variable i
    trial_days,       \* the local days
    vaccinated,       \* the cities vaccinate_city returned in this call, by trial
    outcomes          \* what each finished call gave: [exc, val, vaccinated]

simVars == <<starting_city, simulated_city, simulated_days, pc, exc>>

dayVars == <<task_type, cmd_city, stage, snapshot, steps, failure>>

trialVars == <<vax_city, random_seed, num_trials, i, trial_days, vaccinated, outcomes>>

vars == <<days_contagious, simVars, dayVars, trialVars>>

---------------------------------------------------------------------------
(* Bounds of the model                                                     *)

MaxN == 3            \* largest city
MaxInitDays == 1     \* largest day-count of a person of an input city
MaxContagious == 2   \* largest days_contagious
MaxDays == 4         \* simulated_days is counted up to MaxDays and stays there
MaxVaxN == 2         \* largest city of vax tuples
DrawDen == 2         \* random draws and eagerness are multiples of 1/DrawDen
MaxSteps == 3        \* most successive day-steps applied to a snapshot
MaxSeed == 1         \* largest random_seed
MaxTrials == 2       \* largest num_trials

---------------------------------------------------------------------------
(* Data                                                                    *)

ds_types == {"S", "I", "R", "V"}

Persons == ds_types \X (0..MaxInitDays)

Cities == UNION {[1..n -> Persons] : n \in 1..MaxN}

\* random.random() is in [0, 1): the draw e stands for e / DrawDen
Draws == 0..(DrawDen - 1)

\* an eagerness is in [0.0, 1.0]: ve stands for ve / DrawDen
Eagerness == 0..DrawDen

VaxPersons == ds_types \X (0..MaxInitDays) \X Eagerness

VaxCities == UNION {[1..n -> VaxPersons] : n \in 1..MaxVaxN}

NoPerson == <<"?", 0>>

Return(v) == [exc |-> "none", val |-> v]

Raise(e, filler) == [exc |-> e, val |-> filler]

\* city[i] of a Python list: a negative index counts from the end, an index
\* outside -len..len-1 raises IndexError.
Subscript(city, index) ==
    IF 0 <= index /\ index < Len(city) THEN Return(city[index + 1])
    ELSE IF -Len(city) <= index /\ index < 0
    THEN Return(city[Len(city) + index + 1])
    ELSE Raise("IndexError", NoPerson)

---------------------------------------------------------------------------
(* has_an_infected_neighbor                                                *)

has_an_infected_neighbor(city, location) ==
    IF ~(0 <= location /\ location < Len(city))
    THEN Raise("AssertionError", FALSE)
    ELSE IF Subscript(city, location).val[1] # "S"
    THEN Raise("AssertionError", FALSE)
    ELSE LET left == Subscript(city, location - 1)
             right == Subscript(city, location + 1)
         IN  IF left.exc # "none" THEN Raise(left.exc, FALSE)
             ELSE IF right.exc # "none" THEN Raise(right.exc, FALSE)
             ELSE Return(left.val[1] = "I" \/ right.val[1] = "I")

---------------------------------------------------------------------------
(* advance_person_at_location                                              *)

\* advance_person_at_location with the recovery rule applied to a person of
\* any state
advance_recovering_anyone(city, location, dc) ==
    IF ~(0 <= location /\ location < Len(city))
    THEN Raise("AssertionError", NoPerson)
    ELSE LET disease_state == Subscript(city, location).val[1]
             days == Subscript(city, location).val[2]
             nb == IF disease_state = "S"
                   THEN has_an_infected_neighbor(city, location)
                   ELSE Return(FALSE)
         IN  IF nb.exc # "none" THEN Raise(nb.exc, NoPerson)
             ELSE IF disease_state = "S" /\ nb.val THEN Return(<<"I", 0>>)
             ELSE IF days + 1 = dc THEN Return(<<"R", 0>>)
             ELSE Return(<<disease_state, days + 1>>)

\* advance_person_at_location with the recovery test made one day late:
\* days == days_contagious in place of days + 1 == days_contagious
advance_recovering_late(city, location, dc) ==
    IF ~(0 <= location /\ location < Len(city))
    THEN Raise("AssertionError", NoPerson)
    ELSE LET disease_state == Subscript(city, location).val[1]
             days == Subscript(city, location).val[2]
             nb == IF disease_state = "S"
                   THEN has_an_infected_neighbor(city, location)
                   ELSE Return(FALSE)
         IN  IF nb.exc # "none" THEN Raise(nb.exc, NoPerson)
             ELSE IF disease_state = "S" /\ nb.val THEN Return(<<"I", 0>>)
             ELSE IF disease_state = "I" /\ days = dc THEN Return(<<"R", 0>>)
             ELSE Return(<<disease_state, days + 1>>)

\* advance_person_at_location without the guard disease_state == "S" in
\* front of the neighbor check: the check is called for every person
advance_checking_everyone(city, location, dc) ==
    IF ~(0 <= location /\ location < Len(city))
    THEN Raise("AssertionError", NoPerson)
    ELSE LET disease_state == Subscript(city, location).val[1]
             days == Subscript(city, location).val[2]
             nb == has_an_infected_neighbor(city, location)
         IN  IF nb.exc # "none" THEN Raise(nb.exc, NoPerson)
             ELSE IF disease_state = "S" /\ nb.val THEN Return(<<"I", 0>>)
             ELSE IF disease_state = "I" /\ days + 1 = dc THEN Return(<<"R", 0>>)
             ELSE Return(<<disease_state, days + 1>>)

\* advance_person_at_location with the day count carried over a change of
\* state: a newly Infected or newly Recovered person keeps counting
advance_keeping_days(city, location, dc) ==
    IF ~(0 <= location /\ location < Len(city))
    THEN Raise("AssertionError", NoPerson)
    ELSE LET disease_state == Subscript(city, location).val[1]
             days == Subscript(city, location).val[2]
             nb == IF disease_state = "S"
                   THEN has_an_infected_neighbor(city, location)
                   ELSE Return(FALSE)
         IN  IF nb.exc # "none" THEN Raise(nb.exc, NoPerson)
             ELSE IF disease_state = "S" /\ nb.val THEN Return(<<"I", days + 1>>)
             ELSE IF disease_state = "I" /\ days + 1 = dc THEN Return(<<"R", days + 1>>)
             ELSE Return(<<disease_state, days + 1>>)

advance_person_at_location(city, location, dc) ==
    IF ~(0 <= location /\ location < Len(city))
    THEN Raise("AssertionError", NoPerson)
    ELSE LET disease_state == Subscript(city, location).val[1]
             days == Subscript(city, location).val[2]
             nb == IF disease_state = "S"
                   THEN has_an_infected_neighbor(city, location)
                   ELSE Return(FALSE)
         IN  IF nb.exc # "none" THEN Raise(nb.exc, NoPerson)
             ELSE IF disease_state = "S" /\ nb.val THEN Return(<<"I", 0>>)
             ELSE IF disease_state = "I" /\ days + 1 = dc THEN Return(<<"R", 0>>)
             ELSE Return(<<disease_state, days + 1>>)

---------------------------------------------------------------------------
(* simulate_one_day                                                        *)

\* simulate_from as it would be if the day were computed in place: a person
\* already advanced is what its right neighbor reads.
RECURSIVE simulate_in_place(_, _, _, _)
simulate_in_place(city, dc, location, built) ==
    IF location >= Len(city) THEN Return(built)
    ELSE LET seen == built \o SubSeq(city, location + 1, Len(city))
             p == advance_person_at_location(seen, location, dc)
         IN  IF p.exc # "none" THEN Raise(p.exc, <<>>)
             ELSE simulate_in_place(city, dc, location + 1, Append(built, p.val))

\* The for loop of simulate_one_day from position `location` on, with the
\* list built so far.
RECURSIVE simulate_from(_, _, _, _)
simulate_from(city, dc, location, built) ==
    IF location >= Len(city) THEN Return(built)
    ELSE LET p == advance_person_at_location(city, location, dc)
         IN  IF p.exc # "none" THEN Raise(p.exc, <<>>)
             ELSE simulate_from(city, dc, location + 1, Append(built, p.val))

simulate_one_day(city, dc) == simulate_from(city, dc, 0, <<>>)

---------------------------------------------------------------------------
(* is_transmission_possible                                                *)

RECURSIVE transmission_from(_, _)
transmission_from(city, location) ==
    IF location >= Len(city) THEN Return(FALSE)
    ELSE IF city[location + 1][1] # "S" THEN transmission_from(city, location + 1)
    ELSE LET nb == has_an_infected_neighbor(city, location)
         IN  IF nb.exc # "none" THEN Raise(nb.exc, FALSE)
             ELSE IF nb.val THEN Return(TRUE)
             ELSE transmission_from(city, location + 1)

is_transmission_possible(city) == transmission_from(city, 0)

---------------------------------------------------------------------------
(* run_simulation                                                          *)

Unbound == [bound |-> FALSE, val |-> <<>>]

\* random_seed is None when --random-seed is not given
NoSeed == [given |-> FALSE, value |-> 0]

Seed(n) == [given |-> TRUE, value |-> n]

\* no call of run_trials
NoTrials ==
    /\ vax_city = <<>>
    /\ random_seed = NoSeed
    /\ num_trials = 0
    /\ i = 0
    /\ trial_days = <<>>
    /\ vaccinated = <<>>
    /\ outcomes = <<>>

Bound(v) == [bound |-> TRUE, val |-> v]

\* simulated_days += 1, counted up to MaxDays
Incremented(n) == IF n < MaxDays THEN n + 1 ELSE n

Init ==
    /\ starting_city \in Cities
    /\ days_contagious \in 1..MaxContagious
    /\ simulated_city = Unbound
    /\ simulated_days = 0
    /\ pc = "while"
    /\ exc = "none"
    /\ task_type = "no_vax"
    /\ cmd_city = starting_city
    /\ stage = "run_simulation"
    /\ snapshot = <<>>
    /\ steps = 0
    /\ failure = "none"
    /\ NoTrials

\* line 125: the test of the while loop
WhileTest ==
    /\ pc = "while"
    /\ LET t == is_transmission_possible(starting_city)
       IN  IF t.exc # "none"
           THEN pc' = "raised" /\ exc' = t.exc
           ELSE /\ pc' = IF t.val THEN "body" ELSE "return"
                /\ exc' = exc
    /\ UNCHANGED <<starting_city, days_contagious, simulated_city, simulated_days>>
    /\ UNCHANGED <<dayVars, trialVars>>

\* lines 126-127: the body of the while loop
LoopBody ==
    /\ pc = "body"
    /\ LET d == simulate_one_day(starting_city, days_contagious)
       IN  IF d.exc # "none"
           THEN /\ pc' = "raised" /\ exc' = d.exc
                /\ UNCHANGED <<simulated_city, simulated_days>>
           ELSE /\ simulated_city' = Bound(d.val)
                /\ simulated_days' = Incremented(simulated_days)
                /\ pc' = "while"
                /\ exc' = exc
    /\ UNCHANGED <<starting_city, days_contagious>>
    /\ UNCHANGED <<dayVars, trialVars>>

\* line 129: return (simulated_city, simulated_days)
ReturnStep ==
    /\ pc = "return"
    /\ IF simulated_city.bound
       THEN pc' = "returned" /\ exc' = exc
       ELSE pc' = "raised" /\ exc' = "UnboundLocalError"
    /\ UNCHANGED <<starting_city, days_contagious, simulated_city, simulated_days>>
    /\ UNCHANGED <<dayVars, trialVars>>

Next == WhileTest \/ LoopBody \/ ReturnStep

Spec == Init /\ [][Next]_vars

\* the interpreter runs the one thread of the program as long as it can step
FairSpec == Spec /\ WF_vars(Next)

---------------------------------------------------------------------------
(* vaccinate_person, vaccinate_city                                        *)

\* vaccinate_person with the draw compared by <= instead of <
vaccinate_person_le(vax_tuple, e) ==
    IF vax_tuple[1] = "S" /\ e <= vax_tuple[3] THEN <<"V", 0>>
    ELSE <<vax_tuple[1], vax_tuple[2]>>

\* e is the value random.random() returns if it is called
vaccinate_person(vax_tuple, e) ==
    IF vax_tuple[1] = "S" /\ e < vax_tuple[3] THEN <<"V", 0>>
    ELSE <<vax_tuple[1], vax_tuple[2]>>

\* the draws a vaccination of the city consumes: one per Susceptible person
DrawsNeeded(city_vax_tuples) ==
    Cardinality({k \in 1..Len(city_vax_tuples) : city_vax_tuples[k][1] = "S"})

\* The for loop of vaccinate_city from the k-th person on; tape holds the
\* values the generator returns from here on, in order.
RECURSIVE vaccinate_from(_, _, _, _)
vaccinate_from(city_vax_tuples, k, tape, built) ==
    IF k > Len(city_vax_tuples) THEN built
    ELSE IF city_vax_tuples[k][1] = "S"
    THEN vaccinate_from(city_vax_tuples, k + 1, Tail(tape),
             Append(built, vaccinate_person(city_vax_tuples[k], Head(tape))))
    ELSE vaccinate_from(city_vax_tuples, k + 1, tape,
             Append(built, vaccinate_person(city_vax_tuples[k], 0)))

\* seed is the parameter random_seed, which the function never reads: the
\* generator is the module-wide one of random, in whatever state it is
vaccinate_city(city_vax_tuples, seed, tape) ==
    vaccinate_from(city_vax_tuples, 1, tape, <<>>)

---------------------------------------------------------------------------
(* A city taken through the vaccination step (task type vax) and then      *)
(* through successive day-steps, each applied to the result of the one     *)
(* before                                                                  *)

DaysInit ==
    /\ days_contagious \in 1..MaxContagious
    /\ task_type \in {"no_vax", "vax"}
    /\ cmd_city \in (IF task_type = "vax" THEN VaxCities ELSE Cities)
    /\ stage = "loaded"
    /\ snapshot = <<>>
    /\ steps = 0
    /\ failure = "none"
    /\ starting_city = <<>>
    /\ simulated_city = Unbound
    /\ simulated_days = 0
    /\ pc = "idle"
    /\ exc = "none"
    /\ NoTrials

\* task type no_vax: the city read is the city simulated
Unvaccinated ==
    /\ stage = "loaded"
    /\ task_type = "no_vax"
    /\ snapshot' = cmd_city
    /\ stage' = "ready"
    /\ UNCHANGED <<task_type, cmd_city, steps, failure, days_contagious, simVars, trialVars>>

\* task type vax: vaccinate_city, with the values the generator returns
Vaccinate ==
    /\ stage = "loaded"
    /\ task_type = "vax"
    /\ \E tape \in [1..DrawsNeeded(cmd_city) -> Draws] :
          snapshot' = vaccinate_city(cmd_city, NoSeed, tape)
    /\ stage' = "ready"
    /\ UNCHANGED <<task_type, cmd_city, steps, failure, days_contagious, simVars, trialVars>>

\* one day-step on the current snapshot
DayStep ==
    /\ stage = "ready"
    /\ failure = "none"
    /\ steps < MaxSteps
    /\ LET d == simulate_one_day(snapshot, days_contagious)
       IN  IF d.exc # "none"
           THEN failure' = d.exc /\ UNCHANGED <<snapshot, steps>>
           ELSE failure' = failure /\ snapshot' = d.val /\ steps' = steps + 1
    /\ UNCHANGED <<task_type, cmd_city, stage, days_contagious, simVars, trialVars>>

DaysNext == Unvaccinated \/ Vaccinate \/ DayStep

SpecDays == DaysInit /\ [][DaysNext]_vars

---------------------------------------------------------------------------
(* run_trials, called twice with the same arguments                        *)

\* if random_seed: None and 0 are false
Truthy(seed) == seed.given /\ seed.value # 0

Seeds == {NoSeed} \cup {Seed(n) : n \in 0..MaxSeed}

RECURSIVE Insert(_, _)
Insert(x, sorted) ==
    IF sorted = <<>> THEN <<x>>
    ELSE IF x <= Head(sorted) THEN <<x>> \o sorted
    ELSE <<Head(sorted)>> \o Insert(x, Tail(sorted))

\* sorted(days)
RECURSIVE Sorted(_)
Sorted(s) == IF s = <<>> THEN <<>> ELSE Insert(Head(s), Sorted(Tail(s)))

\* sorted(days)[num_trials // 2]
Median(ds, n) ==
    LET k == n \div 2
    IN  IF k < Len(ds) THEN Return(Sorted(ds)[k + 1]) ELSE Raise("IndexError", 0)

\* lines 215-222: the seed trial k hands to vaccinate_and_simulate
trial_seed(base_seed, k) ==
    IF Truthy(base_seed) THEN Seed(base_seed.value + k) ELSE base_seed

TrialsInit ==
    /\ days_contagious \in 1..MaxContagious
    /\ vax_city \in VaxCities
    /\ random_seed \in Seeds
    /\ num_trials \in 0..MaxTrials
    /\ i = 0
    /\ trial_days = <<>>
    /\ vaccinated = <<>>
    /\ outcomes = <<>>
    /\ pc = "for"
    /\ exc = "none"
    /\ starting_city = <<>>
    /\ simulated_city = Unbound
    /\ simulated_days = 0
    /\ task_type = "vax"
    /\ cmd_city = vax_city
    /\ stage = "run_trials"
    /\ snapshot = <<>>
    /\ steps = 0
    /\ failure = "none"

\* the call ends with outcome r; the second call starts with the same
\* arguments
Finish(r) ==
    /\ outcomes' = Append(outcomes, [exc |-> r.exc, val |-> r.val,
                                     vaccinated |-> vaccinated])
    /\ pc' = IF Len(outcomes) = 0 THEN "for" ELSE "done"

\* lines 214-222 and 189-190: the next trial vaccinates the city and calls
\* run_simulation on it
TrialBegin ==
    /\ pc = "for"
    /\ i < num_trials
    /\ \E tape \in [1..DrawsNeeded(vax_city) -> Draws] :
          /\ starting_city' = vaccinate_city(vax_city, trial_seed(random_seed, i), tape)
          /\ vaccinated' = Append(vaccinated, starting_city')
    /\ simulated_city' = Unbound
    /\ simulated_days' = 0
    /\ pc' = "while"
    /\ UNCHANGED <<exc, days_contagious, dayVars>>
    /\ UNCHANGED <<vax_city, random_seed, num_trials, i, trial_days, outcomes>>

\* lines 190-192 and 216-223: run_simulation is over; its exception leaves
\* run_trials, its day count is appended to days
TrialEnd ==
    /\ pc \in {"returned", "raised"}
    /\ IF pc = "raised"
       THEN /\ vaccinated' = <<>>
            /\ Finish(Raise(exc, 0))
            /\ i' = 0
            /\ trial_days' = <<>>
            /\ exc' = "none"
       ELSE /\ trial_days' = Append(trial_days, simulated_days)
            /\ i' = i + 1
            /\ pc' = "for"
            /\ UNCHANGED <<exc, vaccinated, outcomes>>
    /\ UNCHANGED <<starting_city, simulated_city, simulated_days>>
    /\ UNCHANGED <<days_contagious, dayVars, vax_city, random_seed, num_trials>>

\* line 226: return sorted(days)[num_trials // 2]
TrialsReturn ==
    /\ pc = "for"
    /\ i >= num_trials
    /\ vaccinated' = <<>>
    /\ Finish(Median(trial_days, num_trials))
    /\ i' = 0
    /\ trial_days' = <<>>
    /\ UNCHANGED <<exc, starting_city, simulated_city, simulated_days>>
    /\ UNCHANGED <<days_contagious, dayVars, vax_city, random_seed, num_trials>>

TrialsNext ==
    TrialBegin \/ WhileTest \/ LoopBody \/ ReturnStep \/ TrialEnd \/ TrialsReturn

SpecTrials == TrialsInit /\ [][TrialsNext]_vars

---------------------------------------------------------------------------
(* The ring, as the specification states it                                *)

Positions(city) == 0..(Len(city) - 1)

StateAt(city, p) == city[p + 1][1]

DaysAt(city, p) == city[p + 1][2]

RingLeft(city, p) == StateAt(city, (p - 1) % Len(city))

RingRight(city, p) == StateAt(city, (p + 1) % Len(city))

RingInfectedNeighbor(city, p) ==
    RingLeft(city, p) = "I" \/ RingRight(city, p) = "I"

RingTransmissionPossible(city) ==
    \E p \in Positions(city) :
        StateAt(city, p) = "S" /\ RingInfectedNeighbor(city, p)

Finished == pc \in {"returned", "raised"}

\* what run_simulation returned, when pc = "returned"
Result == <<simulated_city.val, simulated_days>>

\* C_k and k of the sequence C_0 = city, C_{j+1} = simulate_one_day(C_j, dc),
\* k the first index where is_transmission_possible is false; exc tells
\* whether one of the two functions raised on the way
RECURSIVE Trajectory(_, _, _, _)
Trajectory(city, dc, k, fuel) ==
    LET t == is_transmission_possible(city)
        n == simulate_one_day(city, dc)
    IN  IF t.exc # "none" THEN [exc |-> t.exc, city |-> city, k |-> k]
        ELSE IF ~t.val THEN [exc |-> "none", city |-> city, k |-> k]
        ELSE IF fuel = 0 THEN [exc |-> "fuel", city |-> city, k |-> k]
        ELSE IF n.exc # "none" THEN [exc |-> n.exc, city |-> city, k |-> k]
        ELSE Trajectory(n.val, dc, k + 1, fuel - 1)

Expected == Trajectory(starting_city, days_contagious, 0, Len(starting_city) + 1)

---------------------------------------------------------------------------
(* Claims                                                                  *)

\* C1: run_simulation returns (C_k, k), C_0 the input city, C_{j+1} the
\* day-step of C_j, k the first index where transmission is not possible:
\* the counter never exceeds k, and a finished run has returned that pair.
C1_RunSimulationContract ==
    Expected.exc = "none" =>
        /\ simulated_days <= Expected.k
        /\ Finished => /\ pc = "returned"
                       /\ Result = <<Expected.city, Expected.k>>

\* C2: run_simulation terminates for every well-formed city and every
\* days_contagious >= 1: every run reaches the end of the call.
C2_RunSimulationTerminates == <>Finished

\* C3: on a city with no Susceptible or no Infected person,
\* is_transmission_possible is false and run_simulation returns
\* (input city, 0) without a day-step.
C3_NothingToSimulate ==
    ((\A p \in Positions(starting_city) : StateAt(starting_city, p) # "S")
        \/ (\A p \in Positions(starting_city) : StateAt(starting_city, p) # "I"))
    => /\ is_transmission_possible(starting_city) = Return(FALSE)
       /\ simulated_days = 0
       /\ Finished => /\ pc = "returned"
                      /\ Result = <<starting_city, 0>>

\* C4: at every Susceptible position p of a city, has_an_infected_neighbor
\* returns whether the person at (p-1) mod N or at (p+1) mod N is Infected.
C4_NeighborCheckOnRing ==
    \A p \in Positions(starting_city) :
        StateAt(starting_city, p) = "S" =>
            has_an_infected_neighbor(starting_city, p)
                = Return(RingInfectedNeighbor(starting_city, p))

RuleOfTransition(city, p, dc) ==
    IF StateAt(city, p) = "S" /\ RingInfectedNeighbor(city, p) THEN <<"I", 0>>
    ELSE IF StateAt(city, p) = "I" /\ DaysAt(city, p) + 1 = dc THEN <<"R", 0>>
    ELSE <<StateAt(city, p), DaysAt(city, p) + 1>>

\* C5: at every position of every city, advance_person_at_location returns
\* (I, 0) for a Susceptible person with an infected ring neighbor, else
\* (R, 0) for an Infected person with days + 1 = days_contagious, else
\* (same state, days + 1).
C5_TransitionRules ==
    \A p \in Positions(starting_city) :
        advance_person_at_location(starting_city, p, days_contagious)
            = Return(RuleOfTransition(starting_city, p, days_contagious))

\* C6: is_transmission_possible returns true iff some Susceptible person
\* has an Infected ring neighbor, and false otherwise.
C6_TerminationPredicate ==
    is_transmission_possible(starting_city)
        = Return(RingTransmissionPossible(starting_city))

\* C8: a day-step that returns leaves its input city as it was and yields
\* a city of the same length, each entry the transition of that position
\* computed on the input city.
C8_DayStepFromSnapshot ==
    [][(pc = "body" /\ pc' = "while") =>
          /\ starting_city' = starting_city
          /\ Len(simulated_city'.val) = Len(starting_city)
          /\ \A p \in Positions(starting_city) :
                simulated_city'.val[p + 1]
                    = advance_person_at_location(starting_city, p, days_contagious).val
      ]_vars

\* C8 witness: a day-step has returned a city in which a Susceptible person
\* was infected by a left neighbor that recovered in the same step, its
\* right neighbor not being Infected.
C8_Witness ==
    /\ pc = "while"
    /\ simulated_city.bound
    /\ \E p \in Positions(starting_city) :
          /\ p >= 1
          /\ StateAt(starting_city, p) = "S"
          /\ StateAt(starting_city, p - 1) = "I"
          /\ RingRight(starting_city, p) # "I"
          /\ simulated_city.val[p] = <<"R", 0>>
          /\ simulated_city.val[p + 1] = <<"I", 0>>

\* C7: Recovered and Vaccinated are absorbing: a day-step leaves every
\* Recovered person Recovered and every Vaccinated person Vaccinated,
\* whatever its neighbors and its day-count.
C7_Absorbing ==
    [][stage = "ready" =>
          \A p \in Positions(snapshot) :
              StateAt(snapshot, p) \in {"R", "V"} =>
                  /\ Len(snapshot') = Len(snapshot)
                  /\ StateAt(snapshot', p) = StateAt(snapshot, p)
      ]_vars

\* C7 witness: after two day-steps, a person Recovered for at least two
\* days and a person Vaccinated for at least two days each stand next to an
\* Infected person.
C7_Witness ==
    /\ stage = "ready"
    /\ steps >= 2
    /\ \E p \in Positions(snapshot) :
          /\ StateAt(snapshot, p) = "R"
          /\ DaysAt(snapshot, p) >= 2
          /\ RingInfectedNeighbor(snapshot, p)
    /\ \E p \in Positions(snapshot) :
          /\ StateAt(snapshot, p) = "V"
          /\ DaysAt(snapshot, p) >= 2
          /\ RingInfectedNeighbor(snapshot, p)

\* C9: the vaccination step returns a city of the same length and order
\* in which, whatever the draws, a Susceptible person of eagerness 0.0 is
\* unchanged, a Susceptible person of eagerness 1.0 is (V, 0), and a person
\* who is not Susceptible keeps its state and day-count.
C9_VaccinationStep ==
    [][(stage = "loaded" /\ task_type = "vax") =>
          /\ Len(snapshot') = Len(cmd_city)
          /\ \A k \in 1..Len(cmd_city) :
                /\ (cmd_city[k][1] = "S" /\ cmd_city[k][3] = 0)
                      => snapshot'[k] = <<"S", cmd_city[k][2]>>
                /\ (cmd_city[k][1] = "S" /\ cmd_city[k][3] = DrawDen)
                      => snapshot'[k] = <<"V", 0>>
                /\ cmd_city[k][1] # "S"
                      => snapshot'[k] = <<cmd_city[k][1], cmd_city[k][2]>>
      ]_vars

\* C9 witness: a city was vaccinated in which a Susceptible person of
\* eagerness 0.0 and a non-zero day-count stayed as it was and a
\* Susceptible person of eagerness 1.0 and a non-zero day-count became
\* (V, 0).
C9_Witness ==
    /\ stage = "ready"
    /\ task_type = "vax"
    /\ steps = 0
    /\ \E k \in 1..Len(cmd_city) :
          /\ cmd_city[k] = <<"S", 1, 0>>
          /\ snapshot[k] = <<"S", 1>>
    /\ \E k \in 1..Len(cmd_city) :
          /\ cmd_city[k] = <<"S", 1, DrawDen>>
          /\ snapshot[k] = <<"V", 0>>

\* C10: two calls of run_trials with the same arguments and a provided seed
\* give the same result, the city vaccinated in trial i being the same in
\* both calls.
C10_TrialsDeterministic ==
    (random_seed.given /\ Len(outcomes) = 2) => outcomes[1] = outcomes[2]

\* C11: whenever a base seed is provided, 0 included, trial i of run_trials
\* (0 <= i < num_trials) is run with the seed base seed + i; with no seed
\* provided every trial is run with the absent seed.
C11_SeedingPolicy ==
    \A k \in 0..(num_trials - 1) :
        trial_seed(random_seed, k)
            = IF random_seed.given THEN Seed(random_seed.value + k) ELSE NoSeed

\* v is the element at 0-based index k of the ascending sort of ds: it is one
\* of ds, at most k elements are smaller and more than k are not larger
IsAtSortedIndex(ds, k, v) ==
    /\ \E j \in 1..Len(ds) : ds[j] = v
    /\ Cardinality({j \in 1..Len(ds) : ds[j] < v}) <= k
    /\ Cardinality({j \in 1..Len(ds) : ds[j] <= v}) > k

\* a step in which a call of run_trials ends, by a return or by an exception
CallEnds == Len(outcomes') = Len(outcomes) + 1

\* C12: for every num_trials >= 1, run_trials returns the element at index
\* num_trials // 2 of the ascending sort of the num_trials per-trial day
\* counts, which is one of the day counts observed.
C12_ReturnsMiddleOfSorted ==
    [][(CallEnds /\ num_trials >= 1)
          => /\ outcomes'[Len(outcomes')].exc = "none"
             /\ Len(trial_days) = num_trials
             /\ IsAtSortedIndex(trial_days, num_trials \div 2,
                                outcomes'[Len(outcomes')].val)]_vars

\* C13: for every even num_trials >= 2, the value run_trials returns is the
\* lower median, the (num_trials / 2)-th smallest of the day counts (the
\* smaller of the two middle elements).
C13_LowerMedian ==
    [][(CallEnds /\ num_trials >= 2 /\ num_trials % 2 = 0)
          => /\ outcomes'[Len(outcomes')].exc = "none"
             /\ Len(trial_days) = num_trials
             /\ IsAtSortedIndex(trial_days, (num_trials \div 2) - 1,
                                outcomes'[Len(outcomes')].val)]_vars

\* the ring of three of the concrete scenario, and what the scenario takes
\* it to be one day later
ScenarioDay0 == << <<"S", 0>>, <<"I", 0>>, <<"S", 0>> >>

ScenarioDay1 == << <<"I", 0>>, <<"I", 1>>, <<"I", 0>> >>

\* C14: with days_contagious = 2, one day-step on [(S,0),(I,0),(S,0)]
\* completes without error and yields exactly [(I,0),(I,1),(I,0)].
C14_ScenarioFirstDay ==
    [][(stage = "ready" /\ failure = "none" /\ steps < MaxSteps
            /\ snapshot = ScenarioDay0 /\ days_contagious = 2)
          => (failure' = "none" /\ snapshot' = ScenarioDay1)]_vars

\* C15 as stated: with days_contagious = 2, the day-step on
\* [(I,0),(I,1),(I,0)] yields (R,0) at position 0 and (I,2) at position 1.
C15_ScenarioSecondDay ==
    [][(stage = "ready" /\ failure = "none" /\ steps < MaxSteps
            /\ snapshot = ScenarioDay1 /\ days_contagious = 2)
          => /\ failure' = "none"
             /\ snapshot'[1] = <<"R", 0>>
             /\ snapshot'[2] = <<"I", 2>>]_vars

\* C15 amended: with days_contagious = 2, the day-step on
\* [(I,0),(I,1),(I,0)] completes and yields [(I,1),(R,0),(I,1)]: position 0
\* is (I,1) and position 1, whose day count plus one reaches 2, is (R,0).
C15_ScenarioSecondDayAsCoded ==
    [][(stage = "ready" /\ failure = "none" /\ steps < MaxSteps
            /\ snapshot = ScenarioDay1 /\ days_contagious = 2)
          => /\ failure' = "none"
             /\ snapshot' = << <<"I", 1>>, <<"R", 0>>, <<"I", 1>> >>]_vars

\* C15 witness: the day-step has been taken on [(I,0),(I,1),(I,0)] with
\* days_contagious = 2.
C15_Witness ==
    /\ task_type = "no_vax"
    /\ cmd_city = ScenarioDay1
    /\ days_contagious = 2
    /\ steps = 1
    /\ StateAt(snapshot, 1) = "R"

\* positions inside the city and up to two places outside it, on each side
NearPositions(city) == (0 - 2)..(Len(city) + 1)

\* C16: has_an_infected_neighbor called with a position outside 0..N-1, or
\* with the position of a person who is not Susceptible, fails by an
\* assertion failure and returns no boolean. Its callers do not catch what
\* it raises (a failure of the check at a Susceptible person's position is
\* the failure of advance_person_at_location and of the day-step), and they
\* never call it on a person who is not Susceptible: no assertion failure
\* comes out of advance_person_at_location, simulate_one_day,
\* is_transmission_possible or run_simulation.
C16_AssertionContract ==
    /\ \A p \in NearPositions(starting_city) :
          (p \notin Positions(starting_city) \/ StateAt(starting_city, p) # "S")
              => has_an_infected_neighbor(starting_city, p).exc = "AssertionError"
    /\ \A p \in Positions(starting_city) :
          LET a == advance_person_at_location(starting_city, p, days_contagious)
          IN  /\ a.exc # "AssertionError"
              /\ StateAt(starting_city, p) = "S"
                    => a.exc = has_an_infected_neighbor(starting_city, p).exc
              /\ a.exc # "none"
                    => simulate_one_day(starting_city, days_contagious).exc = a.exc
    /\ simulate_one_day(starting_city, days_contagious).exc # "AssertionError"
    /\ is_transmission_possible(starting_city).exc # "AssertionError"
    /\ exc # "AssertionError"

\* C16 witness: run_simulation has computed a day-step on a city with a
\* person who is not Susceptible and a Susceptible person next to an
\* Infected one.
C16_Witness ==
    /\ simulated_city.bound
    /\ \E p \in Positions(starting_city) : StateAt(starting_city, p) = "R"
    /\ \E p \in Positions(starting_city) :
          /\ StateAt(starting_city, p) = "S"
          /\ StateAt(simulated_city.val, p) = "I"

\* C17: every Infected person recovers: whatever its day count in the city
\* the simulation starts from (day counts of days_contagious and more
\* included), a person Infected there is Recovered once days_contagious
\* day-steps have been taken.
C17_InfectedRecover ==
    (stage = "ready" /\ steps >= days_contagious)
        => \A p \in Positions(cmd_city) :
              cmd_city[p + 1][1] = "I" => StateAt(snapshot, p) = "R"

\* rotate(city, k): the person at index i moves to index (i + k) mod N
Rotate(city, k) ==
    [j \in 1..Len(city) |-> city[((j - 1 - k) % Len(city)) + 1]]

\* C18: the neighbor check is symmetric under ring rotation: for every
\* rotation offset k and every Susceptible position p, the check on
\* rotate(city, k) at (p + k) mod N and the check on city at p both return a
\* value, and the same one.
C18_RotationSymmetry ==
    \A k \in Positions(starting_city) :
        \A p \in Positions(starting_city) :
            StateAt(starting_city, p) = "S" =>
                LET n == Len(starting_city)
                    turned == has_an_infected_neighbor(Rotate(starting_city, k),
                                                       (p + k) % n)
                    plain == has_an_infected_neighbor(starting_city, p)
                IN  /\ turned.exc = "none"
                    /\ plain.exc = "none"
                    /\ turned.val = plain.val

\* the snapshot a step starts from: the city read, until it has been
\* vaccinated or handed to the simulation
Previous == IF stage = "ready" THEN snapshot ELSE cmd_city

\* C19: through the vaccination step and any number of day-steps, every
\* snapshot has a day count >= 0 at every position, and a position whose
\* state differs from its state in the previous snapshot (S->I, I->R, S->V)
\* has the day count 0 in the new snapshot.
C19_DayCounts ==
    [][\A p \in Positions(snapshot') :
          /\ DaysAt(snapshot', p) >= 0
          /\ StateAt(snapshot', p) # Previous[p + 1][1]
                => DaysAt(snapshot', p) = 0]_vars

\* C19 witness: a Susceptible person with a day count of at least 1 was
\* vaccinated, and in the day-step that followed an Infected person with a
\* day count of at least 1 recovered.
C19_Witness ==
    /\ task_type = "vax"
    /\ stage = "ready"
    /\ steps = 1
    /\ \E p \in Positions(snapshot) :
          /\ cmd_city[p + 1][1] = "S"
          /\ cmd_city[p + 1][2] >= 1
          /\ snapshot[p + 1] = <<"V", 1>>
    /\ \E p \in Positions(snapshot) :
          /\ cmd_city[p + 1][1] = "I"
          /\ cmd_city[p + 1][2] >= 1
          /\ snapshot[p + 1] = <<"R", 0>>

\* number of Susceptible persons of a city
NumSusceptible(city) ==
    Cardinality({p \in Positions(city) : StateAt(city, p) = "S"})

\* C20: each day-step taken while transmission is possible removes at least
\* one Susceptible person and none adds one, so the day count of
\* run_simulation never exceeds the number of Susceptible persons of the
\* city it started from.
C20_DaysBoundedBySusceptible ==
    simulated_days <= NumSusceptible(starting_city)

===========================================================================
